---- MODULE Spec2Model ----
(***************************************************************************)
(* A proof-of-work blockchain node: the fork-choice store                  *)
(* (src/blockchain/mod.rs), the miner (src/miner/mod.rs), the relay worker *)
(* (src/miner/worker.rs) and the network workers (src/network/worker.rs).  *)
(*                                                                         *)
(* Digests (H256) are natural numbers compared as unsigned integers; the   *)
(* all-zero digest is 0.  A block is its header (every block the code      *)
(* builds has empty content, and a block's hash is its header's hash); the *)
(* header's timestamp and merkle_root only feed the hash and are folded    *)
(* into the nonce.                                                         *)
(***************************************************************************)
EXTENDS Integers, Sequences, FiniteSets, TLC

\* ------------------------------------------------------------------ bounds
MaxNonce == 1        \* nonces drawn by rng.gen() are 0..MaxNonce
MaxDepth == 2        \* callers hold a chain of this many blocks below genesis
MaxBranch == 3       \* longest branch of the fork scenario
MaxInserts == 4      \* insert calls made on the store through its API
PeerDepth == 1       \* the node's peers hold a chain of this many blocks
MaxInputs == 2       \* inputs to the node: control signals and blocks of peers
NumWorkers == 1      \* network worker threads
NumNodes == 3        \* nodes of the network
MaxMined == 1        \* blocks mined in the network
MaxLeaves == 5       \* leaves of a merkle tree
MaxItem == 1         \* the leaves are drawn from 0..MaxItem
PoolSize == 2        \* network worker threads of the pool (num_worker)

Nonces == 0..MaxNonce
NumNonces == MaxNonce + 1

\* ----------------------------------------------------------------- digests
ZeroHash == 0

\* A difficulty enters the header's serialization by its rank (0 for the
\* all-zero difficulty of genesis, 1 for the difficulty of the peers).
DiffRank(difficulty) == IF difficulty = ZeroHash THEN 0 ELSE 1

\* SHA-256 of the serialized header: collision free, never the all-zero
\* digest, and free of cycles (no header contains its own digest).
HashOf(parent, nonce, rank) == 1 + nonce + NumNonces * (rank + 2 * parent)

Header(parent, nonce, difficulty) ==
    [parent |-> parent, nonce |-> nonce, difficulty |-> difficulty]

Hash(block) == HashOf(block.parent, block.nonce, DiffRank(block.difficulty))

get_parent(block) == block.parent

get_difficulty(block) == block.difficulty

\* ------------------------------------------------------------------ blocks
\* The value of a block variable that holds no block yet.
NoBlock == [parent |-> ZeroHash, nonce |-> 0, difficulty |-> ZeroHash, none |-> TRUE]

GenesisBlock == Header(ZeroHash, 0, ZeroHash)

\* The digest of the block `depth` links below genesis on the chain of the
\* blocks with the largest nonce.
RECURSIVE DeepestHash(_)
DeepestHash(depth) ==
    IF depth = 0 THEN Hash(GenesisBlock)
    ELSE HashOf(DeepestHash(depth - 1), MaxNonce, 1)

\* The difficulty carried by the blocks of the peers, a constant of the code:
\* here the digest of one header three links below genesis, so that a miner
\* working on top of a block of the peers meets digests below, equal to and
\* above it.
PeerDifficulty == HashOf(DeepestHash(2), 0, 1)

generate_random_block(parent, nonce) == Header(parent, nonce, PeerDifficulty)

\* The chain of `depth` blocks below genesis with the largest nonce.
MainChain(depth) ==
    {generate_random_block(DeepestHash(k - 1), MaxNonce) : k \in 1..depth}

\* The competitors of the chain: the other children of genesis and of the
\* blocks of the chain.
SideBlocks(depth) ==
    {generate_random_block(DeepestHash(k - 1), n) : k \in 1..depth, n \in 0..(MaxNonce - 1)}

\* A block that names the all-zero digest as its parent, as genesis does.
ZeroParentBlock == generate_random_block(ZeroHash, 0)

\* What a caller may hand to the store: genesis again, a chain below genesis
\* with its competitors, and a block on the all-zero digest.
BlockUniverse ==
    {GenesisBlock} \cup MainChain(MaxDepth) \cup SideBlocks(MaxDepth)
        \cup {ZeroParentBlock}

\* ------------------------------------------------------------------- state
VARIABLES
    blockchain,   \* the Blockchain behind Arc<Mutex<..>>
    call,         \* the last call made on the store API and what it returned
    ninserts,     \* number of insert calls made through the API
    branch1,      \* fork scenario: the shorter branch, ancestor first
    branch2,      \* fork scenario: the longer branch, ancestor first
    pos1,         \* fork scenario: blocks of branch1 inserted so far
    pos2,         \* fork scenario: blocks of branch2 inserted so far
    lock,         \* holder of the store's mutex: 0, or a network worker
    miner_pc,     \* miner thread: "start", "loop" or "exit"
    operating_state,
    miner_parent,     \* miner_loop's _parent_hash
    miner_difficulty, \* miner_loop's _difficulty
    candidate_block,  \* miner_loop's _candidate_block
    miner_log,    \* what the miner did so far: blocks sent, Updates received
    control_chan, \* signals sent by the Handle, not yet received
    ninputs,      \* signals sent and peer blocks delivered so far
    finished_block_chan,
    relay_pc,     \* relay thread: "recv" or "broadcast"
    relay_block,  \* worker_loop's _block
    msg_chan,     \* inbound queue of the network workers
    worker_pc,    \* per network worker: "recv", "handle" or "send"
    worker_msg,   \* per network worker: the decoded message
    worker_out,   \* per network worker: the message it is about to send
    server_out,   \* messages passed to server.broadcast, in order
    peer_out,     \* messages passed to peer.write, in order
    net_links,    \* network: the connections, as pairs of nodes
    net_store,    \* network: the Blockchain of each node
    net_inbox,    \* network: the inbound queue of each node
    nmined,       \* network: blocks mined so far
    merkle_pc,    \* merkle: "idle", "data", "built", "proved" or "verified"
    input_data,   \* merkle: the leaves
    merkle_tree,  \* merkle: MerkleTree::new(&input_data)
    merkle_index, \* merkle: the index a proof was asked for
    merkle_proof, \* merkle: merkle_tree.proof(index)
    merkle_verified, \* merkle: what verify did with that proof
    pool_pc,      \* pool: where each thread of the pool is
    pool_msg,     \* pool: the payload each network worker took
    pool_blocks_vec, \* pool: the blocks each thread has still to go through
    pool_parent_len, \* pool: insert's parent_len, per thread
    pool_new_block_vec, \* pool: new_block_vec of the Blocks arm, per worker
    insert_log,   \* pool: the insert calls that returned, in that order
    announce_log  \* pool: the broadcasts of the network workers, in order

forkVars == <<branch1, branch2, pos1, pos2>>
apiVars == <<call, ninserts>>
minerVars == <<miner_pc, operating_state, miner_parent, miner_difficulty,
               candidate_block, miner_log>>
relayVars == <<relay_pc, relay_block>>
workerVars == <<worker_pc, worker_msg, worker_out>>
nodeVars == <<lock, miner_pc, operating_state, miner_parent, miner_difficulty,
              candidate_block, miner_log,
              control_chan, ninputs, finished_block_chan, relay_pc, relay_block,
              msg_chan, worker_pc, worker_msg, worker_out, server_out, peer_out>>
netVars == <<net_links, net_store, net_inbox, nmined>>
merkleVars == <<merkle_pc, input_data, merkle_tree, merkle_index, merkle_proof,
                merkle_verified>>
poolVars == <<pool_pc, pool_msg, pool_blocks_vec, pool_parent_len,
              pool_new_block_vec, insert_log, announce_log>>
vars == <<blockchain, call, ninserts, branch1, branch2, pos1, pos2, nodeVars,
          netVars, merkleVars, poolVars>>

\* ------------------------------------------------------------- Blockchain
Put(map, key, value) ==
    [k \in DOMAIN map \cup {key} |-> IF k = key THEN value ELSE map[k]]

New ==
    LET genesis_block == GenesisBlock
        tip == Hash(genesis_block)
        max_len == 1
    IN [tip |-> tip,
        max_len |-> max_len,
        hash_to_block |-> Put(<<>>, tip, genesis_block),
        hash_to_len |-> Put(<<>>, tip, max_len)]

ParentLenZeroBase(s, parent_hash) ==
    IF parent_hash \in DOMAIN s.hash_to_block
    THEN s.hash_to_len[parent_hash]
    ELSE 0

ParentLen(s, parent_hash) ==
    IF parent_hash \in DOMAIN s.hash_to_block
    THEN s.hash_to_len[parent_hash]
    ELSE 1

ExtendsBestOnTie(new_len, max_len) == new_len >= max_len

ExtendsBestOffByOne(new_len, max_len) == new_len - 1 > max_len

ExtendsBest(new_len, max_len) == new_len > max_len

\* As Insert, with the length recorded inside the branch that moves the tip.
InsertLenWhenLonger(s, block) ==
    LET block_hash == Hash(block)
        parent_hash == get_parent(block)
        parent_len == ParentLen(s, parent_hash)
        longer == ExtendsBest(parent_len + 1, s.max_len)
    IN [hash_to_block |-> Put(s.hash_to_block, block_hash, block),
        hash_to_len |-> IF longer
                        THEN Put(s.hash_to_len, block_hash, parent_len + 1)
                        ELSE s.hash_to_len,
        tip |-> IF longer THEN block_hash ELSE s.tip,
        max_len |-> IF longer THEN parent_len + 1 ELSE s.max_len]

Insert(s, block) ==
    LET block_hash == Hash(block)
        parent_hash == get_parent(block)
        parent_len == ParentLen(s, parent_hash)
        longer == ExtendsBest(parent_len + 1, s.max_len)
    IN [hash_to_block |-> Put(s.hash_to_block, block_hash, block),
        hash_to_len |-> Put(s.hash_to_len, block_hash, parent_len + 1),
        tip |-> IF longer THEN block_hash ELSE s.tip,
        max_len |-> IF longer THEN parent_len + 1 ELSE s.max_len]

Tip(s) == s.tip

Reverse(seq) == [i \in 1..Len(seq) |-> seq[Len(seq) + 1 - i]]

\* Indexing hash_to_block with a digest that is not a key panics: the walk
\* returns what it collected and whether it panicked.
RECURSIVE Walk(_, _, _)
Walk(s, cur_hash, res) ==
    IF cur_hash = ZeroHash THEN [panic |-> FALSE, res |-> res]
    ELSE IF cur_hash \notin DOMAIN s.hash_to_block THEN [panic |-> TRUE, res |-> res]
    ELSE Walk(s, get_parent(s.hash_to_block[cur_hash]), Append(res, cur_hash))

all_blocks_in_longest_chain(s) ==
    LET walk == Walk(s, s.tip, <<>>)
    IN [panic |-> walk.panic, res |-> Reverse(walk.res)]

\* ----------------------------------------------------------- the threads
Workers == 1..NumWorkers

Paused == [kind |-> "Paused", lambda |-> 0]
Run(i) == [kind |-> "Run", lambda |-> i]
ShutDown == [kind |-> "ShutDown", lambda |-> 0]

Start(i) == [kind |-> "Start", lambda |-> i]
Update == [kind |-> "Update", lambda |-> 0]
Exit == [kind |-> "Exit", lambda |-> 0]

\* The loop only tells a zero lambda (no sleep) from a non-zero one.
Lambdas == {0, 1}

ControlSignals == {Start(i) : i \in Lambdas} \cup {Update, Exit}

NewBlockHashes(list) == [kind |-> "NewBlockHashes", list |-> list]
GetBlocks(list) == [kind |-> "GetBlocks", list |-> list]
Blocks(list) == [kind |-> "Blocks", list |-> list]
NoMessage == [kind |-> "None", list |-> <<>>]

\* The peer handles that come with the inbound messages.
Peers == {"peer1", "peer2"}

\* (msg, peer): a message on the inbound queue with the handle of its sender,
\* or a message written to that handle.
WithPeer(msg, peer) == [kind |-> msg.kind, list |-> msg.list, peer |-> peer]
NoSignal == [kind |-> "None", lambda |-> 0]

\* miner::new, miner::worker::Worker::new and network::worker::Worker::new
InitNode ==
    /\ lock = 0
    /\ miner_pc = "start"
    /\ operating_state = Paused
    /\ miner_parent = ZeroHash
    /\ miner_difficulty = ZeroHash
    /\ candidate_block = NoBlock
    /\ miner_log = <<>>
    /\ control_chan = <<>>
    /\ ninputs = 0
    /\ finished_block_chan = <<>>
    /\ relay_pc = "recv"
    /\ relay_block = NoBlock
    /\ msg_chan = <<>>
    /\ worker_pc = [w \in Workers |-> "recv"]
    /\ worker_msg = [w \in Workers |-> NoMessage]
    /\ worker_out = [w \in Workers |-> NoMessage]
    /\ server_out = <<>>
    /\ peer_out = <<>>

\* ------------------------------------------------------------------ merkle
\* A digest of the merkle tree is the term it was computed from, so that two
\* digests are equal exactly when their inputs are: <<item>> for the hash of
\* a leaf, <<left, right>> for the SHA-256 of two concatenated digests, and
\* <<>> for the default H256.
LeafHash(item) == <<item>>
Sha256(left, right) == <<left, right>>
DefaultValue == <<>>

\* MerkleNode::new_from_children: the value of the parent. A node is
\* modelled by its value; the copies of its children are never read.
new_from_children(left, right) == Sha256(left, right)

\* A round that promotes a last node without right neighbour unchanged.
ParentNodesPromote(cur_level_nodes) ==
    [k \in 1..((Len(cur_level_nodes) + 1) \div 2) |->
        IF 2 * k <= Len(cur_level_nodes)
        THEN new_from_children(cur_level_nodes[2 * k - 1],
                               cur_level_nodes[2 * k])
        ELSE cur_level_nodes[2 * k - 1]]

\* One round of the while loop of MerkleTree::new: the parents of a level,
\* the last node paired with itself when it has no right neighbour.
ParentNodes(cur_level_nodes) ==
    [k \in 1..((Len(cur_level_nodes) + 1) \div 2) |->
        LET left == cur_level_nodes[2 * k - 1]
            right == IF 2 * k <= Len(cur_level_nodes)
                     THEN cur_level_nodes[2 * k]
                     ELSE left
        IN new_from_children(left, right)]

\* level_to_nodes as the sequence of the levels, height h at position h + 1.
RECURSIVE LevelToNodes(_)
LevelToNodes(cur_level_nodes) ==
    IF Len(cur_level_nodes) > 1
    THEN <<cur_level_nodes>> \o LevelToNodes(ParentNodes(cur_level_nodes))
    ELSE <<cur_level_nodes>>

\* MerkleTree::new
MerkleTreeNew(data) ==
    IF Len(data) = 0
    THEN [root |-> DefaultValue, level_to_nodes |-> <<>>,
          height |-> 0, leaf_level_size |-> 0]
    ELSE LET level_to_nodes ==
                 LevelToNodes([i \in 1..Len(data) |-> LeafHash(data[i])])
         IN [root |-> level_to_nodes[Len(level_to_nodes)][1],
             level_to_nodes |-> level_to_nodes,
             height |-> Len(level_to_nodes) - 1,
             leaf_level_size |-> Len(data)]

\* MerkleTree::root
Root(tree) == tree.root

\* A proof that also records the node itself where it has no right
\* neighbour.
ProofPushDuplicate(cur_level_nodes, cur_idx, cur_level_size) ==
    IF cur_idx % 2 = 1
    THEN <<cur_level_nodes[cur_idx]>>
    ELSE IF cur_idx # cur_level_size - 1
         THEN <<cur_level_nodes[cur_idx + 2]>>
         ELSE <<cur_level_nodes[cur_idx + 1]>>

\* What one round of proof's loop pushes; cur_idx counts from 0, the
\* positions of a level from 1.
ProofPush(cur_level_nodes, cur_idx, cur_level_size) ==
    IF cur_idx % 2 = 1
    THEN <<cur_level_nodes[cur_idx]>>
    ELSE IF cur_idx # cur_level_size - 1
         THEN <<cur_level_nodes[cur_idx + 2]>>
         ELSE <<>>

RECURSIVE ProofLoop(_, _, _, _)
ProofLoop(tree, cur_idx, cur_height, cur_level_size) ==
    IF cur_height < tree.height
    THEN ProofPush(tree.level_to_nodes[cur_height + 1], cur_idx,
                   cur_level_size)
         \o ProofLoop(tree, cur_idx \div 2, cur_height + 1,
                      (cur_level_size + 1) \div 2)
    ELSE <<>>

\* MerkleTree::proof
Proof(tree, index) == ProofLoop(tree, index, 0, tree.leaf_level_size)

\* What a call of verify did: its return value and the entries of proof_vec
\* it never popped, or the panic of pop().unwrap() on an empty proof_vec.
Returned(result, unread) ==
    [panicked |-> FALSE, result |-> result, unread |-> unread]
Panicked == [panicked |-> TRUE, result |-> FALSE, unread |-> 0]
NotVerified == [panicked |-> FALSE, result |-> FALSE, unread |-> 0]

\* Vec::pop takes the last element.
Popped(proof_vec) == proof_vec[Len(proof_vec)]
AfterPop(proof_vec) == SubSeq(proof_vec, 1, Len(proof_vec) - 1)

RECURSIVE VerifyLoop(_, _, _, _, _)
VerifyLoop(root, cur_hash, proof_vec, cur_idx, cur_level_size) ==
    IF cur_level_size > 1
    THEN IF cur_idx % 2 = 1
         THEN IF proof_vec = <<>> THEN Panicked
              ELSE VerifyLoop(root, Sha256(Popped(proof_vec), cur_hash),
                              AfterPop(proof_vec), cur_idx \div 2,
                              (cur_level_size + 1) \div 2)
         ELSE IF cur_idx = cur_level_size - 1
              THEN VerifyLoop(root, Sha256(cur_hash, cur_hash), proof_vec,
                              cur_idx \div 2, (cur_level_size + 1) \div 2)
              ELSE IF proof_vec = <<>> THEN Panicked
                   ELSE VerifyLoop(root, Sha256(cur_hash, Popped(proof_vec)),
                                   AfterPop(proof_vec), cur_idx \div 2,
                                   (cur_level_size + 1) \div 2)
    ELSE Returned(cur_hash = root, Len(proof_vec))

\* verify
Verify(root, datum, proof, index, leaf_size) ==
    VerifyLoop(root, datum, Reverse(proof), index, leaf_size)

\* No merkle tree is being built.
NoMerkle ==
    /\ merkle_pc = "idle"
    /\ input_data = <<>>
    /\ merkle_tree = MerkleTreeNew(<<>>)
    /\ merkle_index = 0
    /\ merkle_proof = <<>>
    /\ merkle_verified = NotVerified

\* ---------------------------------------------------- the threads' state
\* The threads that insert into the store: the network workers of the pool
\* and the relay worker. The lock is 0 when free, the thread that holds it
\* otherwise, and Poisoned once a thread has panicked while holding it.
PoolWorkers == 1..PoolSize
Relay == PoolSize + 1
Threads == PoolWorkers \cup {Relay}
Poisoned == -1

\* A payload that bincode::deserialize rejects.
Malformed == [kind |-> "Malformed", list |-> <<>>]

\* Every thread waits on its channel.
NoPool ==
    /\ pool_pc = [t \in Threads |-> "recv"]
    /\ pool_msg = [w \in PoolWorkers |-> NoMessage]
    /\ pool_blocks_vec = [t \in Threads |-> <<>>]
    /\ pool_parent_len = [t \in Threads |-> 0]
    /\ pool_new_block_vec = [w \in PoolWorkers |-> <<>>]
    /\ insert_log = <<>>
    /\ announce_log = <<>>

\* One node on its own: no network around it.
NoNetwork ==
    /\ net_links = {}
    /\ net_store = <<>>
    /\ net_inbox = <<>>
    /\ nmined = 0

\* ------------------------------------------------ the store under its API
Called(op, block, result) == [op |-> op, block |-> block, result |-> result]

CallInsert(block) ==
    /\ ninserts < MaxInserts
    /\ ninserts' = ninserts + 1
    /\ blockchain' = Insert(blockchain, block)
    /\ call' = Called("insert", block, <<>>)
    /\ UNCHANGED <<forkVars, netVars, merkleVars, poolVars, nodeVars>>

CallTip ==
    /\ call' = Called("tip", NoBlock, <<Tip(blockchain)>>)
    /\ UNCHANGED <<blockchain, ninserts, forkVars, netVars, merkleVars, poolVars, nodeVars>>

CallChain ==
    /\ call' = Called("chain", NoBlock, all_blocks_in_longest_chain(blockchain))
    /\ UNCHANGED <<blockchain, ninserts, forkVars, netVars, merkleVars, poolVars, nodeVars>>

Init ==
    /\ blockchain = New
    /\ call = Called("new", NoBlock, <<>>)
    /\ ninserts = 0
    /\ branch1 = <<>>
    /\ branch2 = <<>>
    /\ pos1 = 0
    /\ pos2 = 0
    /\ InitNode
    /\ NoNetwork
    /\ NoMerkle
    /\ NoPool

Next ==
    \/ \E block \in BlockUniverse : CallInsert(block)
    \/ CallTip
    \/ CallChain

Spec == Init /\ [][Next]_vars

\* ------------------------------------------------------- the fork scenario
\* test_longest_chain_rule_and_get_history: two branches built with
\* generate_random_block on one ancestor, inserted into a fresh store.
RECURSIVE BranchFrom(_, _)
BranchFrom(parent, nonces) ==
    IF nonces = <<>> THEN <<>>
    ELSE LET block == generate_random_block(parent, Head(nonces))
         IN <<block>> \o BranchFrom(Hash(block), Tail(nonces))

\* The ancestor is genesis, or a block the store has never been given.
ForkAncestors == {Hash(GenesisBlock), Hash(ZeroParentBlock)}

InitFork ==
    /\ blockchain = New
    /\ call = Called("new", NoBlock, <<>>)
    /\ ninserts = 0
    /\ InitNode
    /\ NoNetwork
    /\ NoMerkle
    /\ NoPool
    /\ pos1 = 0
    /\ pos2 = 0
    /\ \E ancestor \in ForkAncestors, l1 \in 1..MaxBranch, l2 \in 1..MaxBranch :
          /\ l1 < l2
          /\ \E n1 \in [1..l1 -> Nonces], n2 \in [1..l2 -> Nonces] :
                /\ branch1 = BranchFrom(ancestor, n1)
                /\ branch2 = BranchFrom(ancestor, n2)

InsertBranch1 ==
    /\ pos1 < Len(branch1)
    /\ blockchain' = Insert(blockchain, branch1[pos1 + 1])
    /\ call' = Called("insert", branch1[pos1 + 1], <<>>)
    /\ pos1' = pos1 + 1
    /\ UNCHANGED <<ninserts, branch1, branch2, pos2, nodeVars, netVars,
                   merkleVars, poolVars>>

InsertBranch2 ==
    /\ pos2 < Len(branch2)
    /\ blockchain' = Insert(blockchain, branch2[pos2 + 1])
    /\ call' = Called("insert", branch2[pos2 + 1], <<>>)
    /\ pos2' = pos2 + 1
    /\ UNCHANGED <<ninserts, branch1, branch2, pos1, nodeVars, netVars,
                   merkleVars, poolVars>>

NextFork ==
    \/ InsertBranch1
    \/ InsertBranch2

SpecFork == InitFork /\ [][NextFork]_vars

\* ------------------------------------------------------------------ miner
\* The order of H256: digests compare as unsigned big-endian integers.
H256LessEq(a, b) == a <= b

AcceptsStrictly(block_hash, target) ==
    H256LessEq(block_hash, target) /\ block_hash # target

\* _candidate_block.hash() <= _difficulty
Accepts(block_hash, target) == H256LessEq(block_hash, target)

\* Handle::start, Handle::update, Handle::exit
SendSignal(signal) ==
    /\ ninputs < MaxInputs
    /\ ninputs' = ninputs + 1
    /\ control_chan' = Append(control_chan, signal)
    /\ UNCHANGED <<blockchain, apiVars, forkVars, netVars, merkleVars, poolVars, lock, minerVars,
                   finished_block_chan, relayVars, msg_chan, workerVars,
                   server_out, peer_out>>

\* miner_loop before its loop: tip and difficulty are read under the lock.
MinerStart ==
    /\ miner_pc = "start"
    /\ lock = 0
    /\ miner_parent' = Tip(blockchain)
    /\ miner_difficulty' = get_difficulty(blockchain.hash_to_block[Tip(blockchain)])
    /\ miner_pc' = "loop"
    /\ UNCHANGED <<blockchain, apiVars, forkVars, netVars, merkleVars, poolVars, lock, operating_state,
                   candidate_block, miner_log, control_chan, ninputs,
                   finished_block_chan, relayVars, msg_chan, workerVars,
                   server_out, peer_out>>

\* As AfterSignal, with Exit pausing the miner.
AfterSignalExitPauses(state, signal) ==
    CASE signal.kind = "Exit" -> Paused
      [] signal.kind = "Start" -> Run(signal.lambda)
      [] OTHER -> state

\* As AfterSignal, with Update pausing the miner.
AfterSignalUpdatePauses(state, signal) ==
    CASE signal.kind = "Exit" -> ShutDown
      [] signal.kind = "Start" -> Run(signal.lambda)
      [] signal.kind = "Update" -> Paused
      [] OTHER -> state

\* The state after a signal: Exit shuts down, Start(i) runs with i, Update
\* keeps the state.
AfterSignal(state, signal) ==
    CASE signal.kind = "Exit" -> ShutDown
      [] signal.kind = "Start" -> Run(signal.lambda)
      [] OTHER -> state

\* Paused: a blocking recv, one signal, continue.
MinerPaused ==
    /\ miner_pc = "loop"
    /\ operating_state = Paused
    /\ control_chan # <<>>
    /\ operating_state' = AfterSignal(operating_state, Head(control_chan))
    /\ control_chan' = Tail(control_chan)
    /\ UNCHANGED <<blockchain, apiVars, forkVars, netVars, merkleVars, poolVars, lock, miner_pc, miner_parent,
                   miner_difficulty, candidate_block, miner_log, ninputs,
                   finished_block_chan, relayVars, msg_chan, workerVars,
                   server_out, peer_out>>

\* ShutDown at the top of the loop: return.
MinerReturn ==
    /\ miner_pc = "loop"
    /\ operating_state = ShutDown
    /\ miner_pc' = "exit"
    /\ UNCHANGED <<blockchain, apiVars, forkVars, netVars, merkleVars, poolVars, lock, operating_state,
                   miner_parent, miner_difficulty, candidate_block, miner_log,
                   control_chan, ninputs, finished_block_chan, relayVars,
                   msg_chan, workerVars, server_out, peer_out>>

\* As AdvanceParent, with the cached parent left where it was.
AdvanceParentNot(parent_hash, block_hash) == parent_hash

\* _parent_hash = _candidate_block.hash(), after a send
AdvanceParent(parent_hash, block_hash) == block_hash

\* As Returns, with the miner going on after ShutDown.
ReturnsNever(state) == FALSE

\* if let OperatingState::ShutDown = self.operating_state { return; }
Returns(state) == state = ShutDown

\* One iteration in Run: try_recv and at most one signal (Update reads the
\* tip under the lock), return if it was Exit; else build the candidate with
\* a drawn nonce, send it if accepted and go on on top of it.
MinerRun ==
    /\ miner_pc = "loop"
    /\ operating_state.kind = "Run"
    /\ LET signal == IF control_chan = <<>> THEN NoSignal ELSE Head(control_chan)
           _parent_hash == IF signal.kind = "Update"
                           THEN Tip(blockchain) ELSE miner_parent
           updates == IF signal.kind = "Update" THEN <<Update>> ELSE <<>>
       IN /\ signal.kind = "Update" => lock = 0
          /\ control_chan' = IF control_chan = <<>> THEN <<>> ELSE Tail(control_chan)
          /\ operating_state' = AfterSignal(operating_state, signal)
          /\ IF Returns(AfterSignal(operating_state, signal))
             THEN /\ miner_pc' = "exit"
                  /\ UNCHANGED <<miner_parent, candidate_block, miner_log,
                                 finished_block_chan>>
             ELSE \E nonce \in Nonces :
                    LET _candidate_block ==
                            Header(_parent_hash, nonce, miner_difficulty)
                    IN /\ candidate_block' = _candidate_block
                       /\ IF Accepts(Hash(_candidate_block), miner_difficulty)
                          THEN /\ finished_block_chan' =
                                      Append(finished_block_chan, _candidate_block)
                               /\ miner_parent' = AdvanceParent(_parent_hash,
                                                      Hash(_candidate_block))
                               /\ miner_log' = miner_log \o updates
                                                  \o <<_candidate_block>>
                          ELSE /\ miner_parent' = _parent_hash
                               /\ miner_log' = miner_log \o updates
                               /\ UNCHANGED finished_block_chan
                       /\ UNCHANGED miner_pc
    /\ UNCHANGED <<blockchain, apiVars, forkVars, netVars, merkleVars, poolVars, lock, miner_difficulty, ninputs,
                   relayVars, msg_chan, workerVars, server_out, peer_out>>

\* ------------------------------------------------------------------ relay
\* As RelayInsert, with the block taken from the channel and not stored.
RelayInsertSkipsStore ==
    /\ relay_pc = "recv"
    /\ finished_block_chan # <<>>
    /\ lock = 0
    /\ relay_block' = Head(finished_block_chan)
    /\ finished_block_chan' = Tail(finished_block_chan)
    /\ relay_pc' = "broadcast"
    /\ UNCHANGED <<blockchain, apiVars, forkVars, netVars, merkleVars, poolVars, lock, minerVars, control_chan,
                   ninputs, msg_chan, workerVars, server_out, peer_out>>

\* As RelayInsert, with the newest block of the channel taken first.
RelayInsertNewest ==
    /\ relay_pc = "recv"
    /\ finished_block_chan # <<>>
    /\ lock = 0
    /\ relay_block' = finished_block_chan[Len(finished_block_chan)]
    /\ finished_block_chan' =
          SubSeq(finished_block_chan, 1, Len(finished_block_chan) - 1)
    /\ blockchain' =
          Insert(blockchain, finished_block_chan[Len(finished_block_chan)])
    /\ relay_pc' = "broadcast"
    /\ UNCHANGED <<apiVars, forkVars, netVars, merkleVars, poolVars, lock, minerVars, control_chan, ninputs,
                   msg_chan, workerVars, server_out, peer_out>>

\* recv, then lock, insert, drop
RelayInsert ==
    /\ relay_pc = "recv"
    /\ finished_block_chan # <<>>
    /\ lock = 0
    /\ relay_block' = Head(finished_block_chan)
    /\ finished_block_chan' = Tail(finished_block_chan)
    /\ blockchain' = Insert(blockchain, Head(finished_block_chan))
    /\ relay_pc' = "broadcast"
    /\ UNCHANGED <<apiVars, forkVars, netVars, merkleVars, poolVars, lock, minerVars, control_chan, ninputs,
                   msg_chan, workerVars, server_out, peer_out>>

RelayBroadcast ==
    /\ relay_pc = "broadcast"
    /\ server_out' = Append(server_out, NewBlockHashes(<<Hash(relay_block)>>))
    /\ relay_pc' = "recv"
    /\ relay_block' = NoBlock
    /\ UNCHANGED <<blockchain, apiVars, forkVars, netVars, merkleVars, poolVars, lock, minerVars, control_chan,
                   ninputs, finished_block_chan, msg_chan, workerVars, peer_out>>

\* -------------------------------------------------------- network workers
\* The blocks the peers of the node hold.
PeerBlocks == MainChain(PeerDepth) \cup {ZeroParentBlock}

ListsOver(set) == UNION {[1..n -> set] : n \in 1..MaxInputs}

\* The peers push their blocks to the node.
BlocksMessages == {Blocks(list) : list \in ListsOver(PeerBlocks)}

\* A peer's message arrives on the inbound queue.
PeerSend(msg) ==
    /\ ninputs + Len(msg.list) <= MaxInputs
    /\ ninputs' = ninputs + Len(msg.list)
    /\ msg_chan' = Append(msg_chan, msg)
    /\ UNCHANGED <<blockchain, apiVars, forkVars, netVars, merkleVars, poolVars, lock, minerVars, control_chan,
                   finished_block_chan, relayVars, workerVars, server_out,
                   peer_out>>

WorkerRecv(w) ==
    /\ worker_pc[w] = "recv"
    /\ msg_chan # <<>>
    /\ worker_msg' = [worker_msg EXCEPT ![w] = Head(msg_chan)]
    /\ msg_chan' = Tail(msg_chan)
    /\ worker_pc' = [worker_pc EXCEPT ![w] = "handle"]
    /\ UNCHANGED <<blockchain, apiVars, forkVars, netVars, merkleVars, poolVars, lock, minerVars, control_chan,
                   ninputs, finished_block_chan, relayVars, worker_out,
                   server_out, peer_out>>

\* As MissedHashes, with every hash taken for known.
MissedHashesNone(s, hash_vec) == <<>>

\* As MissedHashes, with nothing filtered out.
MissedHashesAll(s, hash_vec) == hash_vec

\* hash_vec filtered to the hashes that are not keys of the block map.
RECURSIVE MissedHashes(_, _)
MissedHashes(s, hash_vec) ==
    IF hash_vec = <<>> THEN <<>>
    ELSE IF Head(hash_vec) \notin DOMAIN s.hash_to_block
         THEN <<Head(hash_vec)>> \o MissedHashes(s, Tail(hash_vec))
         ELSE MissedHashes(s, Tail(hash_vec))

\* As StoredBlocks, with the genesis block cloned for every key.
RECURSIVE StoredBlocksGenesis(_, _)
StoredBlocksGenesis(s, hash_vec) ==
    IF hash_vec = <<>> THEN <<>>
    ELSE IF Head(hash_vec) \in DOMAIN s.hash_to_block
         THEN <<GenesisBlock>> \o StoredBlocksGenesis(s, Tail(hash_vec))
         ELSE StoredBlocksGenesis(s, Tail(hash_vec))

\* hash_vec filtered to the keys of the block map and mapped to clones of
\* the stored blocks.
RECURSIVE StoredBlocks(_, _)
StoredBlocks(s, hash_vec) ==
    IF hash_vec = <<>> THEN <<>>
    ELSE IF Head(hash_vec) \in DOMAIN s.hash_to_block
         THEN <<s.hash_to_block[Head(hash_vec)]>> \o StoredBlocks(s, Tail(hash_vec))
         ELSE StoredBlocks(s, Tail(hash_vec))

\* As InsertNew, with the hash of every block of blocks_vec recorded.
RECURSIVE InsertNewRecordsAll(_, _, _)
InsertNewRecordsAll(s, blocks_vec, new_block_vec) ==
    IF blocks_vec = <<>> THEN [blockchain |-> s, new_block_vec |-> new_block_vec]
    ELSE LET block_item == Head(blocks_vec)
             item_hash == Hash(block_item)
         IN IF item_hash \notin DOMAIN s.hash_to_block
            THEN InsertNewRecordsAll(Insert(s, block_item), Tail(blocks_vec),
                                     Append(new_block_vec, item_hash))
            ELSE InsertNewRecordsAll(s, Tail(blocks_vec),
                                     Append(new_block_vec, item_hash))

\* The loop of the Blocks arm: the store and new_block_vec after blocks_vec.
RECURSIVE InsertNew(_, _, _)
InsertNew(s, blocks_vec, new_block_vec) ==
    IF blocks_vec = <<>> THEN [blockchain |-> s, new_block_vec |-> new_block_vec]
    ELSE LET block_item == Head(blocks_vec)
             item_hash == Hash(block_item)
         IN IF item_hash \notin DOMAIN s.hash_to_block
            THEN InsertNew(Insert(s, block_item), Tail(blocks_vec),
                           Append(new_block_vec, item_hash))
            ELSE InsertNew(s, Tail(blocks_vec), new_block_vec)

\* What an arm does under the lock: the store afterwards and the message it
\* goes on to send (NoMessage when the list it built is empty).
Handle(s, msg) ==
    CASE msg.kind = "NewBlockHashes" ->
            LET missed_hash_vec == MissedHashes(s, msg.list)
            IN [blockchain |-> s,
                out |-> IF missed_hash_vec # <<>>
                        THEN GetBlocks(missed_hash_vec) ELSE NoMessage]
      [] msg.kind = "GetBlocks" ->
            LET block_vec == StoredBlocks(s, msg.list)
            IN [blockchain |-> s,
                out |-> IF block_vec # <<>> THEN Blocks(block_vec) ELSE NoMessage]
      [] msg.kind = "Blocks" ->
            LET done == InsertNew(s, msg.list, <<>>)
            IN [blockchain |-> done.blockchain,
                out |-> IF done.new_block_vec # <<>>
                        THEN NewBlockHashes(done.new_block_vec) ELSE NoMessage]

\* The arm up to its write or broadcast: the guard taken in the arm lives to
\* the end of the arm, so the lock stays held while a message is pending.
WorkerHandle(w) ==
    /\ worker_pc[w] = "handle"
    /\ lock = 0
    /\ LET done == Handle(blockchain, worker_msg[w])
       IN /\ blockchain' = done.blockchain
          /\ worker_out' = [worker_out EXCEPT ![w] = done.out]
          /\ IF done.out = NoMessage
             THEN /\ worker_pc' = [worker_pc EXCEPT ![w] = "recv"]
                  /\ worker_msg' = [worker_msg EXCEPT ![w] = NoMessage]
                  /\ UNCHANGED lock
             ELSE /\ worker_pc' = [worker_pc EXCEPT ![w] = "send"]
                  /\ lock' = w
                  /\ UNCHANGED worker_msg
    /\ UNCHANGED <<apiVars, forkVars, netVars, merkleVars, poolVars, minerVars, control_chan, ninputs,
                   finished_block_chan, relayVars, msg_chan, server_out,
                   peer_out>>

\* peer.write or server.broadcast, then the end of the arm drops the guard.
WorkerSend(w) ==
    /\ worker_pc[w] = "send"
    /\ IF worker_out[w].kind = "NewBlockHashes"
       THEN /\ server_out' = Append(server_out, worker_out[w])
            /\ UNCHANGED peer_out
       ELSE /\ peer_out' = Append(peer_out,
                                 WithPeer(worker_out[w], worker_msg[w].peer))
            /\ UNCHANGED server_out
    /\ lock' = 0
    /\ worker_pc' = [worker_pc EXCEPT ![w] = "recv"]
    /\ worker_msg' = [worker_msg EXCEPT ![w] = NoMessage]
    /\ worker_out' = [worker_out EXCEPT ![w] = NoMessage]
    /\ UNCHANGED <<blockchain, apiVars, forkVars, netVars, merkleVars, poolVars, minerVars, control_chan,
                   ninputs, finished_block_chan, relayVars, msg_chan>>

\* ------------------------------------------------- the network workers alone
\* The digests the peers know: of their blocks and of genesis.
PeerHashes == {Hash(block) : block \in PeerBlocks} \cup {Hash(GenesisBlock)}

\* What the peers send: announcements, requests and blocks.
SyncMessages ==
    {WithPeer(msg, peer) :
        msg \in {NewBlockHashes(list) : list \in ListsOver(PeerHashes)}
                \cup {GetBlocks(list) : list \in ListsOver(PeerHashes)}
                \cup BlocksMessages,
        peer \in Peers}

NextSync ==
    \/ \E msg \in SyncMessages : PeerSend(msg)
    \/ \E w \in Workers : WorkerRecv(w)
    \/ \E w \in Workers : WorkerHandle(w)
    \/ \E w \in Workers : WorkerSend(w)

SpecSync == Init /\ [][NextSync]_vars

\* ---------------------------------------------------------------- the node
NextNode ==
    \/ \E signal \in ControlSignals : SendSignal(signal)
    \/ MinerStart
    \/ MinerPaused
    \/ MinerReturn
    \/ MinerRun
    \/ RelayInsert
    \/ RelayBroadcast
    \/ \E msg \in BlocksMessages : PeerSend(msg)
    \/ \E w \in Workers : WorkerRecv(w)
    \/ \E w \in Workers : WorkerHandle(w)
    \/ \E w \in Workers : WorkerSend(w)

SpecNode == Init /\ [][NextNode]_vars

\* ------------------------------------------ the miner beside a synced store
\* The node after construction, a first Blocks message of a peer already on
\* the inbound queue of the network workers.
InitMiner ==
    /\ blockchain = New
    /\ call = Called("new", NoBlock, <<>>)
    /\ ninserts = 0
    /\ branch1 = <<>>
    /\ branch2 = <<>>
    /\ pos1 = 0
    /\ pos2 = 0
    /\ lock = 0
    /\ miner_pc = "start"
    /\ operating_state = Paused
    /\ miner_parent = ZeroHash
    /\ miner_difficulty = ZeroHash
    /\ candidate_block = NoBlock
    /\ miner_log = <<>>
    /\ control_chan = <<>>
    /\ ninputs = 0
    /\ finished_block_chan = <<>>
    /\ relay_pc = "recv"
    /\ relay_block = NoBlock
    /\ \E block \in MainChain(PeerDepth) : msg_chan = <<Blocks(<<block>>)>>
    /\ worker_pc = [w \in Workers |-> "recv"]
    /\ worker_msg = [w \in Workers |-> NoMessage]
    /\ worker_out = [w \in Workers |-> NoMessage]
    /\ server_out = <<>>
    /\ peer_out = <<>>
    /\ NoNetwork
    /\ NoMerkle
    /\ NoPool

\* The signals of the API server are the only further inputs.
NextMiner ==
    \/ \E signal \in ControlSignals : SendSignal(signal)
    \/ MinerStart
    \/ MinerPaused
    \/ MinerReturn
    \/ MinerRun
    \/ RelayInsert
    \/ RelayBroadcast
    \/ \E w \in Workers : WorkerRecv(w)
    \/ \E w \in Workers : WorkerHandle(w)
    \/ \E w \in Workers : WorkerSend(w)

SpecMiner == InitMiner /\ [][NextMiner]_vars

\* The relay thread and the network workers are scheduled again and again:
\* a block on the channel is taken, a pending broadcast or write is made.
SpecMinerFair ==
    /\ SpecMiner
    /\ WF_vars(RelayInsert)
    /\ WF_vars(RelayBroadcast)
    /\ \A w \in Workers : WF_vars(WorkerSend(w))

\* A step of the miner thread.
MinerStep == MinerStart \/ MinerPaused \/ MinerReturn \/ MinerRun

\* The miner thread alone is scheduled again and again.
SpecMinerAlone == SpecMiner /\ WF_vars(MinerStep)

\* The miner thread is scheduled again and again, and so is a network worker
\* inside its write or broadcast: the call returns, and the lock the worker
\* holds meanwhile comes free for the miner, which takes it at its start
\* and on Update.
SpecMinerLive ==
    /\ SpecMiner
    /\ WF_vars(MinerStep)
    /\ WF_vars(\E w \in Workers : WorkerSend(w))

\* ------------------------------------------------------- a network of nodes
Nodes == 1..NumNodes

\* The connected networks with the fewest connections: a line of nodes, and
\* a star around the first node.
Line == {{n, n + 1} : n \in 1..(NumNodes - 1)}
Star == {{1, n} : n \in 2..NumNodes}

\* The draws of the miners' rng.gen(): the smallest and the largest nonce.
MinedNonces == {0, MaxNonce}

\* server.broadcast of node `from`: the message is queued for every node
\* connected to it, with the handle of its sender.
Broadcast(inbox, from, msg) ==
    [n \in Nodes |-> IF {from, n} \in net_links
                     THEN Append(inbox[n], WithPeer(msg, from))
                     ELSE inbox[n]]

\* peer.write of node `from` on the handle of node `to`.
Write(inbox, from, to, msg) ==
    [inbox EXCEPT ![to] = Append(@, WithPeer(msg, from))]

InitGossip ==
    /\ blockchain = New
    /\ call = Called("new", NoBlock, <<>>)
    /\ ninserts = 0
    /\ branch1 = <<>>
    /\ branch2 = <<>>
    /\ pos1 = 0
    /\ pos2 = 0
    /\ InitNode
    /\ net_links \in {Line, Star}
    /\ net_store = [n \in Nodes |-> New]
    /\ net_inbox = [n \in Nodes |-> <<>>]
    /\ nmined = 0
    /\ NoMerkle
    /\ NoPool

\* The miner of node n sends a block built on the node's tip; the relay
\* inserts it and broadcasts its hash.
NetMine(n) ==
    /\ nmined < MaxMined
    /\ nmined' = nmined + 1
    /\ \E nonce \in MinedNonces :
          LET _block == generate_random_block(Tip(net_store[n]), nonce)
          IN /\ net_store' = [net_store EXCEPT ![n] = Insert(@, _block)]
             /\ net_inbox' = Broadcast(net_inbox, n, NewBlockHashes(<<Hash(_block)>>))
    /\ UNCHANGED <<blockchain, apiVars, forkVars, nodeVars, merkleVars, poolVars,
                   net_links>>

\* A network worker of node n takes the next message, handles it, and makes
\* the write or broadcast of its arm.
NetHandle(n) ==
    /\ net_inbox[n] # <<>>
    /\ LET msg == Head(net_inbox[n])
           done == Handle(net_store[n], msg)
           taken == [net_inbox EXCEPT ![n] = Tail(@)]
       IN /\ net_store' = [net_store EXCEPT ![n] = done.blockchain]
          /\ net_inbox' = CASE done.out = NoMessage -> taken
                            [] done.out.kind = "NewBlockHashes" ->
                                  Broadcast(taken, n, done.out)
                            [] OTHER -> Write(taken, n, msg.peer, done.out)
    /\ UNCHANGED <<blockchain, apiVars, forkVars, nodeVars, merkleVars, poolVars,
                   net_links, nmined>>

NextGossip ==
    \/ \E n \in Nodes : NetMine(n)
    \/ \E n \in Nodes : NetHandle(n)

\* A message waiting on some inbound queue is handled in the end: less than
\* what a fair scheduling of every node's workers gives.
SpecGossip ==
    /\ InitGossip
    /\ [][NextGossip]_vars
    /\ WF_vars(\E n \in Nodes : NetHandle(n))

\* ------------------------------------------------- the merkle tree in use
\* merkle_verifying: a tree is built over input_data, a proof is asked for
\* one index, and the proof is verified against the root. The test's two
\* leaves are replaced by every sequence of up to MaxLeaves items.
Items == 0..MaxItem

RECURSIVE SeqsOfLen(_)
SeqsOfLen(n) ==
    IF n = 0 THEN {<<>>}
    ELSE {Append(data, item) : data \in SeqsOfLen(n - 1), item \in Items}

LeafSeqs == UNION {SeqsOfLen(n) : n \in 0..MaxLeaves}

InitMerkle ==
    /\ blockchain = New
    /\ call = Called("new", NoBlock, <<>>)
    /\ ninserts = 0
    /\ branch1 = <<>>
    /\ branch2 = <<>>
    /\ pos1 = 0
    /\ pos2 = 0
    /\ InitNode
    /\ NoNetwork
    /\ NoPool
    /\ merkle_pc = "data"
    /\ input_data \in LeafSeqs
    /\ merkle_tree = MerkleTreeNew(<<>>)
    /\ merkle_index = 0
    /\ merkle_proof = <<>>
    /\ merkle_verified = NotVerified

\* let merkle_tree = MerkleTree::new(&input_data);
MerkleNew ==
    /\ merkle_pc = "data"
    /\ merkle_tree' = MerkleTreeNew(input_data)
    /\ merkle_pc' = "built"
    /\ UNCHANGED <<blockchain, apiVars, forkVars, nodeVars, netVars, poolVars,
                   input_data, merkle_index, merkle_proof, merkle_verified>>

\* let proof = merkle_tree.proof(index); for an index below the size
MerkleProof ==
    /\ merkle_pc = "built"
    /\ \E index \in 0..(Len(input_data) - 1) :
          /\ merkle_index' = index
          /\ merkle_proof' = Proof(merkle_tree, index)
    /\ merkle_pc' = "proved"
    /\ UNCHANGED <<blockchain, apiVars, forkVars, nodeVars, netVars, poolVars,
                   input_data, merkle_tree, merkle_verified>>

\* verify(&merkle_tree.root(), &input_data[index].hash(), &proof, index,
\*        input_data.len())
MerkleVerify ==
    /\ merkle_pc = "proved"
    /\ merkle_verified' = Verify(Root(merkle_tree),
                                 LeafHash(input_data[merkle_index + 1]),
                                 merkle_proof, merkle_index, Len(input_data))
    /\ merkle_pc' = "verified"
    /\ UNCHANGED <<blockchain, apiVars, forkVars, nodeVars, netVars, poolVars,
                   input_data, merkle_tree, merkle_index, merkle_proof>>

NextMerkle ==
    \/ MerkleNew
    \/ MerkleProof
    \/ MerkleVerify

SpecMerkle == InitMerkle /\ [][NextMerkle]_vars

\* ------------------------------------------- the threads that insert, step
\* by step. The relay worker and the network workers of the pool run their
\* loops one statement at a time: the lock of the store, the presence check
\* of the Blocks arm, and the three stages of Blockchain::insert (read the
\* parent's length, write the two maps, compare and move the tip).
PoolBlocks == MainChain(2)

\* What the peers send: blocks, or a payload that does not decode.
PoolMessages ==
    {Blocks(list) : list \in ListsOver(PoolBlocks)} \cup {Malformed}

Weight(msg) == IF msg.kind = "Blocks" THEN Len(msg.list) ELSE 1

\* The variables no thread of the pool touches.
poolIdle == <<apiVars, forkVars, netVars, merkleVars, minerVars, control_chan,
              relayVars, workerVars, peer_out>>

\* The miner sends a block on finished_block_chan.
MinerSends(block) ==
    /\ ninputs < MaxInputs
    /\ ninputs' = ninputs + 1
    /\ finished_block_chan' = Append(finished_block_chan, block)
    /\ UNCHANGED <<blockchain, lock, msg_chan, server_out, poolVars, poolIdle>>

\* A peer's payload arrives on the inbound queue.
PeerSends(msg) ==
    /\ ninputs + Weight(msg) <= MaxInputs
    /\ ninputs' = ninputs + Weight(msg)
    /\ msg_chan' = Append(msg_chan, msg)
    /\ UNCHANGED <<blockchain, lock, finished_block_chan, server_out, poolVars,
                   poolIdle>>

\* As CanLock, with every thread let in.
CanLockAlways(l) == TRUE

\* Mutex::lock returns once no other thread holds the lock.
CanLock(l) == l = 0

\* As LockAfterPanic, for a panic of the thread that holds the lock.
LockAfterPanicPoisoned(l) == Poisoned

\* The panic of deserialize(..).unwrap() comes before any lock() of the
\* loop: it leaves the lock as it is.
LockAfterPanic(l) == l

\* let _block = self.finished_block_chan.recv()
PoolRelayRecv ==
    /\ pool_pc[Relay] = "recv"
    /\ finished_block_chan # <<>>
    /\ pool_blocks_vec' =
          [pool_blocks_vec EXCEPT ![Relay] = <<Head(finished_block_chan)>>]
    /\ finished_block_chan' = Tail(finished_block_chan)
    /\ pool_pc' = [pool_pc EXCEPT ![Relay] = "lock"]
    /\ UNCHANGED <<blockchain, lock, ninputs, msg_chan, server_out, pool_msg,
                   pool_parent_len, pool_new_block_vec, insert_log,
                   announce_log, poolIdle>>

\* msg_chan.recv() and bincode::deserialize(&msg).unwrap(): the worker takes
\* the payload and enters the Blocks arm, or panics on a malformed one.
PoolRecv(w) ==
    /\ pool_pc[w] = "recv"
    /\ msg_chan # <<>>
    /\ msg_chan' = Tail(msg_chan)
    /\ pool_msg' = [pool_msg EXCEPT ![w] = Head(msg_chan)]
    /\ IF Head(msg_chan) = Malformed
       THEN /\ pool_pc' = [pool_pc EXCEPT ![w] = "panicked"]
            /\ lock' = LockAfterPanic(lock)
            /\ UNCHANGED pool_blocks_vec
       ELSE /\ pool_pc' = [pool_pc EXCEPT ![w] = "lock"]
            /\ pool_blocks_vec' =
                  [pool_blocks_vec EXCEPT ![w] = Head(msg_chan).list]
            /\ UNCHANGED lock
    /\ UNCHANGED <<blockchain, ninputs, finished_block_chan, server_out,
                   pool_parent_len, pool_new_block_vec, insert_log,
                   announce_log, poolIdle>>

\* self.blockchain.lock().unwrap(): the thread waits for the lock; on a
\* poisoned lock unwrap panics.
PoolLock(t) ==
    /\ pool_pc[t] = "lock"
    /\ IF lock = Poisoned
       THEN /\ pool_pc' = [pool_pc EXCEPT ![t] = "panicked"]
            /\ UNCHANGED lock
       ELSE /\ CanLock(lock)
            /\ lock' = t
            /\ pool_pc' = [pool_pc EXCEPT
                              ![t] = IF t = Relay THEN "insert" ELSE "check"]
    /\ UNCHANGED <<blockchain, ninputs, finished_block_chan, msg_chan,
                   server_out, pool_msg, pool_blocks_vec, pool_parent_len,
                   pool_new_block_vec, insert_log, announce_log, poolIdle>>

\* As Known, with every block taken for new.
KnownNever(s, item_hash) == FALSE

\* _blockchain.hash_to_block.contains_key(&item_hash)
Known(s, item_hash) == item_hash \in DOMAIN s.hash_to_block

\* One round of the for loop of the Blocks arm up to the call of insert:
\* a block whose hash is a key of the block map is skipped.
PoolCheck(w) ==
    /\ w \in PoolWorkers
    /\ pool_pc[w] = "check"
    /\ IF pool_blocks_vec[w] = <<>>
       THEN /\ pool_pc' = [pool_pc EXCEPT ![w] = "send"]
            /\ UNCHANGED pool_blocks_vec
       ELSE IF Known(blockchain, Hash(Head(pool_blocks_vec[w])))
            THEN /\ pool_blocks_vec' =
                       [pool_blocks_vec EXCEPT ![w] = Tail(@)]
                 /\ UNCHANGED pool_pc
            ELSE /\ pool_pc' = [pool_pc EXCEPT ![w] = "insert"]
                 /\ UNCHANGED pool_blocks_vec
    /\ UNCHANGED <<blockchain, lock, ninputs, finished_block_chan, msg_chan,
                   server_out, pool_msg, pool_parent_len, pool_new_block_vec,
                   insert_log, announce_log, poolIdle>>

\* Blockchain::insert, first stage: parent_len.
PoolInsertRead(t) ==
    /\ pool_pc[t] = "insert"
    /\ pool_parent_len' =
          [pool_parent_len EXCEPT
              ![t] = ParentLen(blockchain, get_parent(Head(pool_blocks_vec[t])))]
    /\ pool_pc' = [pool_pc EXCEPT ![t] = "write"]
    /\ UNCHANGED <<blockchain, lock, ninputs, finished_block_chan, msg_chan,
                   server_out, pool_msg, pool_blocks_vec, pool_new_block_vec,
                   insert_log, announce_log, poolIdle>>

\* Blockchain::insert, second stage: the block and its length are stored.
PoolInsertWrite(t) ==
    /\ pool_pc[t] = "write"
    /\ LET block == Head(pool_blocks_vec[t])
       IN blockchain' =
             [blockchain EXCEPT
                 !.hash_to_block = Put(@, Hash(block), block),
                 !.hash_to_len = Put(@, Hash(block), pool_parent_len[t] + 1)]
    /\ pool_pc' = [pool_pc EXCEPT ![t] = "tip"]
    /\ UNCHANGED <<lock, ninputs, finished_block_chan, msg_chan, server_out,
                   pool_msg, pool_blocks_vec, pool_parent_len,
                   pool_new_block_vec, insert_log, announce_log, poolIdle>>

\* Blockchain::insert, last stage: the tip moves to a longer chain, and
\* insert returns. The relay then drops its guard; a network worker pushes
\* the hash on new_block_vec and goes on with its loop.
PoolInsertTip(t) ==
    /\ pool_pc[t] = "tip"
    /\ LET block == Head(pool_blocks_vec[t])
           longer == ExtendsBest(pool_parent_len[t] + 1, blockchain.max_len)
       IN /\ blockchain' =
                [blockchain EXCEPT
                    !.tip = IF longer THEN Hash(block) ELSE @,
                    !.max_len = IF longer THEN pool_parent_len[t] + 1 ELSE @]
          /\ insert_log' = Append(insert_log, [thread |-> t, block |-> block])
          /\ IF t = Relay
             THEN /\ lock' = 0
                  /\ pool_pc' = [pool_pc EXCEPT ![t] = "broadcast"]
                  /\ UNCHANGED <<pool_blocks_vec, pool_new_block_vec>>
             ELSE /\ pool_new_block_vec' =
                        [pool_new_block_vec EXCEPT ![t] = Append(@, Hash(block))]
                  /\ pool_blocks_vec' = [pool_blocks_vec EXCEPT ![t] = Tail(@)]
                  /\ pool_pc' = [pool_pc EXCEPT ![t] = "check"]
                  /\ UNCHANGED lock
    /\ UNCHANGED <<ninputs, finished_block_chan, msg_chan, server_out, pool_msg,
                   pool_parent_len, announce_log, poolIdle>>

\* The relay's server.broadcast(NewBlockHashes(vec![_block.hash()]))
PoolRelayBroadcast ==
    /\ pool_pc[Relay] = "broadcast"
    /\ server_out' =
          Append(server_out,
                 NewBlockHashes(<<Hash(Head(pool_blocks_vec[Relay]))>>))
    /\ pool_blocks_vec' = [pool_blocks_vec EXCEPT ![Relay] = <<>>]
    /\ pool_pc' = [pool_pc EXCEPT ![Relay] = "recv"]
    /\ UNCHANGED <<blockchain, lock, ninputs, finished_block_chan, msg_chan,
                   pool_msg, pool_parent_len, pool_new_block_vec, insert_log,
                   announce_log, poolIdle>>

\* The end of the Blocks arm: a non-empty new_block_vec is broadcast, and the
\* guard goes out of scope.
PoolSend(w) ==
    /\ w \in PoolWorkers
    /\ pool_pc[w] = "send"
    /\ IF pool_new_block_vec[w] # <<>>
       THEN /\ server_out' =
                  Append(server_out, NewBlockHashes(pool_new_block_vec[w]))
            /\ announce_log' = Append(announce_log, pool_new_block_vec[w])
       ELSE UNCHANGED <<server_out, announce_log>>
    /\ lock' = IF lock = w THEN 0 ELSE lock
    /\ pool_new_block_vec' = [pool_new_block_vec EXCEPT ![w] = <<>>]
    /\ pool_msg' = [pool_msg EXCEPT ![w] = NoMessage]
    /\ pool_pc' = [pool_pc EXCEPT ![w] = "recv"]
    /\ UNCHANGED <<blockchain, ninputs, finished_block_chan, msg_chan,
                   pool_blocks_vec, pool_parent_len, insert_log, poolIdle>>

\* A step of one of the threads.
PoolStep ==
    \/ PoolRelayRecv
    \/ PoolRelayBroadcast
    \/ \E w \in PoolWorkers : PoolRecv(w) \/ PoolCheck(w) \/ PoolSend(w)
    \/ \E t \in Threads :
          PoolLock(t) \/ PoolInsertRead(t) \/ PoolInsertWrite(t)
              \/ PoolInsertTip(t)

NextPool ==
    \/ \E block \in PoolBlocks : MinerSends(block)
    \/ \E msg \in PoolMessages : PeerSends(msg)
    \/ PoolRelayRecv
    \/ PoolRelayBroadcast
    \/ \E w \in PoolWorkers : PoolRecv(w)
    \/ \E t \in Threads : PoolLock(t)
    \/ \E w \in PoolWorkers : PoolCheck(w)
    \/ \E t \in Threads : PoolInsertRead(t)
    \/ \E t \in Threads : PoolInsertWrite(t)
    \/ \E t \in Threads : PoolInsertTip(t)
    \/ \E w \in PoolWorkers : PoolSend(w)

SpecPool == Init /\ [][NextPool]_vars

\* Every thread is scheduled: a thread that can take a step is not left
\* waiting forever.
SpecPoolFair == SpecPool /\ WF_vars(PoolStep)

\* ------------------------------------------------------------------ claims
ForkDone == pos1 = Len(branch1) /\ pos2 = Len(branch2) /\ Len(branch2) > 0

\* C1: once every block of both branches is in the store, whatever the
\* interleaving, tip() is the hash of the last block of the longer branch.
LongestChainWins ==
    ForkDone => Tip(blockchain) = Hash(branch2[Len(branch2)])

\* The scenario of the test: branches of 2 and 3 blocks that part at the
\* ancestor, the shorter one completed last.
LongestChainWinsWitness ==
    /\ ForkDone
    /\ Len(branch1) = 2
    /\ Len(branch2) = 3
    /\ branch1[1] # branch2[1]
    /\ call.block = branch1[2]
    /\ Tip(blockchain) = Hash(branch2[3])

ApiInsert == ninserts' = ninserts + 1

\* C2: an insert moves tip and best length only if the length it records for
\* the block exceeds the best length before the call; otherwise both stay,
\* and the block is stored all the same.
TieKeepsTip ==
    [][ApiInsert =>
        LET block_hash == Hash(call'.block)
            new_len == blockchain'.hash_to_len[block_hash]
        IN /\ block_hash \in DOMAIN blockchain'.hash_to_block
           /\ blockchain'.hash_to_block[block_hash] = call'.block
           /\ new_len <= blockchain.max_len =>
                 /\ blockchain'.tip = blockchain.tip
                 /\ blockchain'.max_len = blockchain.max_len
           /\ (blockchain'.tip # blockchain.tip
                 \/ blockchain'.max_len # blockchain.max_len) =>
                 new_len > blockchain.max_len]_vars

\* A block was stored with the best length and another block holds the tip.
TieKeepsTipWitness ==
    /\ call.op = "insert"
    /\ blockchain.hash_to_len[Hash(call.block)] = blockchain.max_len
    /\ blockchain.tip # Hash(call.block)

\* C3: tip is a stored block whose recorded length is the best length, and
\* the best length is the maximum of the recorded lengths.
TipInvariant ==
    /\ blockchain.tip \in DOMAIN blockchain.hash_to_block
    /\ blockchain.hash_to_len[blockchain.tip] = blockchain.max_len
    /\ \A h \in DOMAIN blockchain.hash_to_len :
          blockchain.hash_to_len[h] <= blockchain.max_len

ParentStored(h) ==
    get_parent(blockchain.hash_to_block[h]) \in DOMAIN blockchain.hash_to_block

\* The store holds a block that came before its parent, and a chain of three.
TipInvariantWitness ==
    /\ blockchain.max_len >= 3
    /\ \E h \in DOMAIN blockchain.hash_to_block :
          /\ ParentStored(h)
          /\ blockchain.hash_to_len[h]
                # blockchain.hash_to_len[get_parent(blockchain.hash_to_block[h])] + 1

\* C4: every stored block other than genesis whose parent is stored has the
\* recorded length of its parent plus 1.
LengthInvariant ==
    \A h \in DOMAIN blockchain.hash_to_block :
        (h # Hash(GenesisBlock) /\ ParentStored(h)) =>
            blockchain.hash_to_len[h]
                = blockchain.hash_to_len[get_parent(blockchain.hash_to_block[h])] + 1

\* C5: where chain() returns, its result starts at genesis, ends at tip(),
\* links each element to the previous one by parent, and has as many
\* elements as the length recorded for the tip.
ChainListing ==
    (call.op = "chain" /\ ~call.result.panic) =>
        LET chain == call.result.res
        IN /\ Len(chain) >= 1
           /\ chain[1] = Hash(GenesisBlock)
           /\ chain[Len(chain)] = Tip(blockchain)
           /\ \A i \in 2..Len(chain) :
                 get_parent(blockchain.hash_to_block[chain[i]]) = chain[i - 1]
           /\ Len(chain) = blockchain.hash_to_len[Tip(blockchain)]

\* C7: an insert of a block whose parent is not a key records length 2 for
\* it, and moves the tip to it exactly when the best length was 1.
OrphanInsertion ==
    [][(ApiInsert /\ get_parent(call'.block) \notin DOMAIN blockchain.hash_to_block) =>
        LET block_hash == Hash(call'.block)
        IN /\ blockchain'.hash_to_len[block_hash] = 2
           /\ blockchain.max_len = 1 =>
                 /\ blockchain'.tip = block_hash
                 /\ blockchain'.max_len = 2
           /\ blockchain.max_len # 1 =>
                 /\ blockchain'.tip = blockchain.tip
                 /\ blockchain'.max_len = blockchain.max_len]_vars

\* An orphan was stored with length 2 under a tip of length 3 or more.
OrphanInsertionWitness ==
    /\ call.op = "insert"
    /\ get_parent(call.block) \notin DOMAIN blockchain.hash_to_block
    /\ blockchain.hash_to_len[Hash(call.block)] = 2
    /\ blockchain.max_len >= 3
    /\ blockchain.tip # Hash(call.block)

\* C8: an insert of a block that the store already holds changes nothing.
IdempotentReinsert ==
    [][(ApiInsert /\ Hash(call'.block) \in DOMAIN blockchain.hash_to_block) =>
        blockchain' = blockchain]_vars

ZeroParents ==
    {h \in DOMAIN blockchain.hash_to_block :
        get_parent(blockchain.hash_to_block[h]) = ZeroHash}

\* C6: a fresh store holds one block, tip() is its hash and its recorded
\* length is 1; ever after, genesis is the one stored block whose parent is
\* the all-zero digest, and its recorded length is 1.
GenesisInvariant ==
    /\ Cardinality(DOMAIN blockchain.hash_to_block) = 1
    /\ Tip(blockchain) \in DOMAIN blockchain.hash_to_block
    /\ blockchain.hash_to_len[Tip(blockchain)] = 1
    /\ [](/\ ZeroParents = {Hash(GenesisBlock)}
          /\ blockchain.hash_to_block[Hash(GenesisBlock)] = GenesisBlock
          /\ blockchain.hash_to_len[Hash(GenesisBlock)] = 1)

\* C9: no step removes a key of the block map or of the length map, and the
\* two maps always have the same keys.
AppendOnly ==
    /\ [](DOMAIN blockchain.hash_to_block = DOMAIN blockchain.hash_to_len)
    /\ [][/\ DOMAIN blockchain.hash_to_block \subseteq DOMAIN blockchain'.hash_to_block
          /\ DOMAIN blockchain.hash_to_len \subseteq DOMAIN blockchain'.hash_to_len]_vars

\* The relay has just added a mined block to a store that a network worker
\* had added a block to.
AppendOnlyWitness ==
    /\ relay_pc = "broadcast"
    /\ Hash(relay_block) \in DOMAIN blockchain.hash_to_block
    /\ Cardinality(DOMAIN blockchain.hash_to_block) >= 3
    /\ \E i \in 1..Len(server_out) : Len(server_out[i].list) >= 1

\* A step of the miner's loop in Run that goes on to an attempt.
MineStep ==
    /\ miner_pc = "loop"
    /\ miner_pc' = "loop"
    /\ operating_state.kind = "Run"
    /\ \/ candidate_block' # candidate_block
       \/ miner_parent' # miner_parent
       \/ operating_state' # operating_state
       \/ Len(finished_block_chan') > Len(finished_block_chan)
       \/ Len(control_chan') < Len(control_chan)

\* C10: an attempt of the running miner sends its candidate exactly when the
\* candidate's hash is at most the difficulty; nothing else sends a block;
\* a rejected candidate sends nothing and leaves the cached parent.
PowBoundary ==
    [][/\ MineStep =>
            /\ get_difficulty(candidate_block') = miner_difficulty
            /\ IF Hash(candidate_block') <= miner_difficulty
               THEN /\ finished_block_chan'
                         = Append(finished_block_chan, candidate_block')
                    /\ miner_parent' = Hash(candidate_block')
               ELSE /\ finished_block_chan' = finished_block_chan
                    /\ miner_parent' = get_parent(candidate_block')
       /\ Len(finished_block_chan') > Len(finished_block_chan) => MineStep]_vars

\* The running miner has just sent a candidate whose hash equals the
\* difficulty, and goes on on top of it.
PowBoundaryWitness ==
    /\ miner_pc = "loop"
    /\ operating_state.kind = "Run"
    /\ Hash(candidate_block) = miner_difficulty
    /\ finished_block_chan # <<>>
    /\ finished_block_chan[Len(finished_block_chan)] = candidate_block
    /\ miner_parent = Hash(candidate_block)

\* The miner takes the signal at the head of its control queue.
SignalTaken == Len(control_chan') < Len(control_chan)

\* C11: the miner starts Paused; taking Start(i) while Paused or Running
\* gives Running(i), taking Update keeps the state, taking Exit gives
\* ShutDown; the state changes in no other way, ShutDown is never left and
\* Running never goes back to Paused.
MinerTransitions ==
    /\ operating_state = Paused
    /\ [][/\ SignalTaken =>
               LET signal == Head(control_chan)
               IN /\ operating_state.kind \in {"Paused", "Run"}
                  /\ signal.kind = "Start" => operating_state' = Run(signal.lambda)
                  /\ signal.kind = "Update" => operating_state' = operating_state
                  /\ signal.kind = "Exit" => operating_state' = ShutDown
          /\ operating_state' # operating_state => SignalTaken
          /\ operating_state = ShutDown => operating_state' = ShutDown
          /\ operating_state.kind = "Run" => operating_state' # Paused]_vars

\* The miner was started, built a candidate, took Exit while Running and
\* left its loop.
MinerTransitionsWitness ==
    /\ operating_state = ShutDown
    /\ miner_pc = "exit"
    /\ candidate_block # NoBlock
    /\ control_chan = <<>>

\* An entry of the miner's log that is a block it sent.
IsBlock(entry) == "parent" \in DOMAIN entry

\* C12: of two blocks the miner sent one after the other with no Update
\* taken in between, the later one names the earlier one as its parent.
SelfExtension ==
    \A i \in 1..(Len(miner_log) - 1) :
        (IsBlock(miner_log[i]) /\ IsBlock(miner_log[i + 1])) =>
            get_parent(miner_log[i + 1]) = Hash(miner_log[i])

\* The miner sent two blocks in a row and the relay has not yet stored the
\* first of them.
SelfExtensionWitness ==
    /\ Len(miner_log) >= 2
    /\ IsBlock(miner_log[1])
    /\ IsBlock(miner_log[2])
    /\ Hash(miner_log[1]) \notin DOMAIN blockchain.hash_to_block
    /\ Len(finished_block_chan) >= 1

\* The running miner takes an Update.
UpdateTaken ==
    /\ SignalTaken
    /\ operating_state.kind = "Run"
    /\ Head(control_chan) = Update

\* C13: the candidate built when the running miner takes an Update has the
\* store's tip of that moment as parent and the difficulty recorded in that
\* tip block; the candidates that follow a rejected candidate, with no Update
\* taken, keep its parent and its difficulty.
UpdateRefresh ==
    [][/\ UpdateTaken =>
            /\ get_parent(candidate_block') = Tip(blockchain)
            /\ get_difficulty(candidate_block')
                 = get_difficulty(blockchain.hash_to_block[Tip(blockchain)])
       /\ (/\ MineStep
           /\ ~UpdateTaken
           /\ candidate_block # NoBlock
           /\ miner_parent = get_parent(candidate_block)) =>
            /\ get_parent(candidate_block') = get_parent(candidate_block)
            /\ get_difficulty(candidate_block') = get_difficulty(candidate_block)]_vars

\* The paused miner takes a Start.
EntersRunning == operating_state = Paused /\ operating_state'.kind = "Run"

\* C14: when the paused miner takes a Start, the parent and the difficulty
\* it holds for its first candidates are the store's tip of that moment and
\* the difficulty recorded in that tip block.
FreshOnStart ==
    [][EntersRunning =>
        /\ miner_parent' = Tip(blockchain)
        /\ miner_difficulty'
             = get_difficulty(blockchain.hash_to_block[Tip(blockchain)])]_vars

\* The blocks of the miner's log, in the order they were sent.
RECURSIVE BlocksOf(_)
BlocksOf(log) ==
    IF log = <<>> THEN <<>>
    ELSE IF IsBlock(Head(log)) THEN <<Head(log)>> \o BlocksOf(Tail(log))
    ELSE BlocksOf(Tail(log))

\* The blocks sent by the miner that the relay has not yet broadcast.
RelayPending ==
    (IF relay_pc = "broadcast" THEN <<relay_block>> ELSE <<>>) \o finished_block_chan

IsSuffix(tail, seq) ==
    /\ Len(tail) <= Len(seq)
    /\ \A i \in 1..Len(tail) : tail[i] = seq[Len(seq) - Len(tail) + i]

\* C15: the blocks the relay has still to handle are the last blocks the
\* miner sent, in the order sent; the relay takes the oldest one, inserts it,
\* and then broadcasts one NewBlockHashes with just its hash, the block being
\* in the store at that moment; and the relay gets to every block sent.
RelayOrdering ==
    /\ [](IsSuffix(RelayPending, BlocksOf(miner_log)))
    /\ [][/\ (relay_pc = "recv" /\ relay_pc' = "broadcast") =>
               /\ finished_block_chan # <<>>
               /\ relay_block' = Head(finished_block_chan)
               /\ finished_block_chan' = Tail(finished_block_chan)
               /\ blockchain' = Insert(blockchain, Head(finished_block_chan))
               /\ server_out' = server_out
          /\ (relay_pc = "broadcast" /\ relay_pc' = "recv") =>
               /\ Hash(relay_block) \in DOMAIN blockchain.hash_to_block
               /\ blockchain.hash_to_block[Hash(relay_block)] = relay_block
               /\ server_out'
                    = Append(server_out, NewBlockHashes(<<Hash(relay_block)>>))
               /\ finished_block_chan' = finished_block_chan
          /\ Len(finished_block_chan') < Len(finished_block_chan) =>
               (relay_pc = "recv" /\ relay_pc' = "broadcast")]_vars
    /\ []<>(finished_block_chan = <<>> /\ relay_pc = "recv")

\* The miner sent two blocks; the relay has stored both and has broadcast
\* the hash of each.
RelayOrderingWitness ==
    /\ Len(BlocksOf(miner_log)) >= 2
    /\ RelayPending = <<>>
    /\ \A i \in 1..Len(miner_log) :
          IsBlock(miner_log[i]) =>
              /\ Hash(miner_log[i]) \in DOMAIN blockchain.hash_to_block
              /\ \E j \in 1..Len(server_out) :
                    server_out[j] = NewBlockHashes(<<Hash(miner_log[i])>>)

\* Worker w leaves the locked part of its arm.
HandleStep(w) == worker_pc[w] = "handle" /\ worker_pc'[w] # "handle"

\* Worker w makes the write or broadcast of its arm.
SendStep(w) == worker_pc[w] = "send" /\ worker_pc'[w] = "recv"

\* The hashes of hash_vec that are not in the store, in the order of hash_vec.
Absent(hash_vec) ==
    SelectSeq(hash_vec, LAMBDA hash : hash \notin DOMAIN blockchain.hash_to_block)

\* C16: on NewBlockHashes(list) a worker leaves the store alone and writes
\* to the peer the message came from one GetBlocks with the hashes of list
\* that are absent from the store, in the order of list; it writes and
\* broadcasts nothing when none is absent.
NewBlockHashesHandling ==
    [][\A w \in Workers :
        /\ (HandleStep(w) /\ worker_msg[w].kind = "NewBlockHashes") =>
              /\ blockchain' = blockchain
              /\ peer_out' = peer_out
              /\ server_out' = server_out
              /\ IF Absent(worker_msg[w].list) = <<>>
                 THEN worker_pc'[w] = "recv"
                 ELSE /\ worker_pc'[w] = "send"
                      /\ worker_out'[w] = GetBlocks(Absent(worker_msg[w].list))
        /\ (SendStep(w) /\ worker_msg[w].kind = "NewBlockHashes") =>
              /\ blockchain' = blockchain
              /\ server_out' = server_out
              /\ peer_out' = Append(peer_out,
                                 WithPeer(GetBlocks(Absent(worker_msg[w].list)),
                                          worker_msg[w].peer))]_vars

\* A worker has answered an announcement that named a stored block and an
\* absent one, and has said nothing on an announcement of stored blocks.
NewBlockHashesHandlingWitness ==
    /\ \E w \in Workers :
          /\ worker_pc[w] = "send"
          /\ worker_msg[w].kind = "NewBlockHashes"
          /\ Len(worker_msg[w].list) = 2
          /\ worker_out[w].kind = "GetBlocks"
          /\ Len(worker_out[w].list) = 1
    /\ peer_out = <<>>

\* The hashes of hash_vec that are in the store, in the order of hash_vec.
Present(hash_vec) ==
    SelectSeq(hash_vec, LAMBDA hash : hash \in DOMAIN blockchain.hash_to_block)

\* The stored blocks of the hashes of hash_vec that are in the store.
PresentBlocks(hash_vec) ==
    [i \in 1..Len(Present(hash_vec)) |->
        blockchain.hash_to_block[Present(hash_vec)[i]]]

\* C17: on GetBlocks(list) a worker leaves the store alone and writes to the
\* peer the message came from one Blocks with the stored block of every hash
\* of list that is in the store, in the order of list, each block hashing to
\* the hash asked for; it writes and broadcasts nothing when none is stored.
GetBlocksHandling ==
    [][\A w \in Workers :
        /\ (HandleStep(w) /\ worker_msg[w].kind = "GetBlocks") =>
              /\ blockchain' = blockchain
              /\ peer_out' = peer_out
              /\ server_out' = server_out
              /\ IF Present(worker_msg[w].list) = <<>>
                 THEN worker_pc'[w] = "recv"
                 ELSE /\ worker_pc'[w] = "send"
                      /\ worker_out'[w] = Blocks(PresentBlocks(worker_msg[w].list))
        /\ (SendStep(w) /\ worker_msg[w].kind = "GetBlocks") =>
              /\ blockchain' = blockchain
              /\ server_out' = server_out
              /\ peer_out' = Append(peer_out,
                                 WithPeer(Blocks(PresentBlocks(worker_msg[w].list)),
                                          worker_msg[w].peer))
              /\ \A i \in 1..Len(Present(worker_msg[w].list)) :
                    Hash(peer_out'[Len(peer_out')].list[i])
                        = Present(worker_msg[w].list)[i]]_vars

\* A worker has written back a block that another peer had delivered.
GetBlocksHandlingWitness ==
    /\ Len(peer_out) = 1
    /\ peer_out[1].kind = "Blocks"
    /\ peer_out[1].list[1] # GenesisBlock
    /\ Hash(peer_out[1].list[1]) \in DOMAIN blockchain.hash_to_block

\* The blocks of blocks_vec whose hash is not in `known`, each once, in the
\* order of blocks_vec.
RECURSIVE NewBlocks(_, _)
NewBlocks(known, blocks_vec) ==
    IF blocks_vec = <<>> THEN <<>>
    ELSE IF Hash(Head(blocks_vec)) \in known
         THEN NewBlocks(known, Tail(blocks_vec))
         ELSE <<Head(blocks_vec)>>
                  \o NewBlocks(known \cup {Hash(Head(blocks_vec))}, Tail(blocks_vec))

\* The store after one insert for each block of blocks_vec, in order.
RECURSIVE InsertAll(_, _)
InsertAll(s, blocks_vec) ==
    IF blocks_vec = <<>> THEN s
    ELSE InsertAll(Insert(s, Head(blocks_vec)), Tail(blocks_vec))

HashesOf(blocks_vec) == [i \in 1..Len(blocks_vec) |-> Hash(blocks_vec[i])]

\* C18: on Blocks(list) a worker inserts, in the order of list, the blocks
\* whose hash is not yet in the store and skips the others; if it inserted
\* any it broadcasts one NewBlockHashes with the hashes of the blocks it
\* inserted, in that order; else it broadcasts nothing and the store stays.
BlocksHandling ==
    [][\A w \in Workers :
        /\ (HandleStep(w) /\ worker_msg[w].kind = "Blocks") =>
              LET new == NewBlocks(DOMAIN blockchain.hash_to_block, worker_msg[w].list)
              IN /\ blockchain' = InsertAll(blockchain, new)
                 /\ peer_out' = peer_out
                 /\ server_out' = server_out
                 /\ IF new = <<>>
                    THEN /\ worker_pc'[w] = "recv"
                         /\ blockchain' = blockchain
                    ELSE /\ worker_pc'[w] = "send"
                         /\ worker_out'[w] = NewBlockHashes(HashesOf(new))
        /\ (SendStep(w) /\ worker_msg[w].kind = "Blocks") =>
              /\ blockchain' = blockchain
              /\ peer_out' = peer_out
              /\ worker_out[w].kind = "NewBlockHashes"
              /\ server_out' = Append(server_out, worker_out[w])]_vars

\* A worker has stored the two blocks of one message and has broadcast their
\* two hashes in the order of the message.
BlocksHandlingWitness ==
    /\ Len(server_out) = 1
    /\ Len(server_out[1].list) = 2
    /\ server_out[1].list[1] # server_out[1].list[2]
    /\ \A i \in 1..2 : server_out[1].list[i] \in DOMAIN blockchain.hash_to_block
    /\ \A w \in Workers : worker_pc[w] = "recv"

Holds(n, hash) == hash \in DOMAIN net_store[n].hash_to_block

\* Every block that is in some node's store is in every node's store.
AllHoldAll ==
    \A m, n \in Nodes :
        \A hash \in DOMAIN net_store[m].hash_to_block : Holds(n, hash)

\* C19: in a connected network with every node's workers scheduled fairly,
\* a block that is in the store of one node stays there and is eventually in
\* the store of every node: the stores never lose a block, and once mining
\* has stopped they come to hold the same blocks for good.
GossipPropagation ==
    /\ [][\A n \in Nodes :
            \A hash \in DOMAIN net_store[n].hash_to_block :
                hash \in DOMAIN net_store'[n].hash_to_block]_vars
    /\ <>[]AllHoldAll

\* A block mined at one end of a line of nodes is in every store; the far
\* end got it from the node in the middle.
GossipPropagationWitness ==
    /\ net_links = Line
    /\ nmined >= 1
    /\ \E hash \in DOMAIN net_store[1].hash_to_block \ {Hash(GenesisBlock)} :
          \A n \in Nodes : Holds(n, hash)
    /\ \A n \in Nodes : net_inbox[n] = <<>>


\* C20: Merkle round-trip. For every non-empty leaf sequence, of odd or
\* even size, size 1 included, and every index below its size, verify on
\* the root of the tree built over the leaves, the hash of the leaf at the
\* index, the proof of the tree for the index, the index and the size
\* returns true; and verify pops exactly the entries proof pushed: it never
\* pops an empty proof, and it leaves no entry unpopped.
RoundTrip(data, index) ==
    Verify(Root(MerkleTreeNew(data)), LeafHash(data[index + 1]),
           Proof(MerkleTreeNew(data), index), index, Len(data))
MerkleRoundTrip ==
    /\ \A index \in 0..(Len(input_data) - 1) :
          RoundTrip(input_data, index) = Returned(TRUE, 0)
    /\ merkle_pc = "verified" =>
          /\ ~merkle_verified.panicked
          /\ merkle_verified.result
          /\ merkle_verified.unread = 0
          /\ merkle_verified = RoundTrip(input_data, merkle_index)
\* An odd number of leaves and the proof of the last one, which has no
\* entry for the leaf level, has been verified.
MerkleRoundTripWitness ==
    /\ merkle_pc = "verified"
    /\ Len(input_data) > 1
    /\ Len(input_data) % 2 = 1
    /\ merkle_index = Len(input_data) - 1
    /\ Len(merkle_proof) < merkle_tree.height
    /\ merkle_verified.result


\* C21: Merkle construction. The root of the tree built over the leaves
\* equals the reference definition: the leaf level is the hash of each leaf
\* in order, each level pairs the adjacent nodes 2k and 2k + 1 into the
\* hash of left followed by right, the last node of a level of odd size is
\* paired with itself, until one node remains. A single leaf gives the hash
\* of that leaf as root, no leaf gives the default digest.
RECURSIVE RefSize(_, _)
RefSize(size, level) ==
    IF level = 0 THEN size ELSE (RefSize(size, level - 1) + 1) \div 2
RECURSIVE RefHeight(_)
RefHeight(size) == IF size <= 1 THEN 0 ELSE 1 + RefHeight((size + 1) \div 2)
RECURSIVE RefNode(_, _, _)
RefNode(data, level, k) ==
    IF level = 0 THEN LeafHash(data[k + 1])
    ELSE LET right == IF 2 * k + 1 < RefSize(Len(data), level - 1)
                      THEN 2 * k + 1
                      ELSE 2 * k
         IN Sha256(RefNode(data, level - 1, 2 * k),
                   RefNode(data, level - 1, right))
RefRoot(data) ==
    IF data = <<>> THEN DefaultValue
    ELSE RefNode(data, RefHeight(Len(data)), 0)
MerkleConstruction ==
    /\ Root(MerkleTreeNew(input_data)) = RefRoot(input_data)
    /\ merkle_pc \in {"built", "proved", "verified"} =>
          /\ Root(merkle_tree) = RefRoot(input_data)
          /\ Len(input_data) = 1 =>
                Root(merkle_tree) = LeafHash(input_data[1])
          /\ Len(input_data) = 0 => Root(merkle_tree) = DefaultValue
\* A tree over three leaves has been built: its last leaf is paired with
\* itself.
MerkleConstructionWitness ==
    /\ merkle_pc = "built"
    /\ Len(input_data) = 3
    /\ Root(merkle_tree) =
          Sha256(Sha256(LeafHash(input_data[1]), LeafHash(input_data[2])),
                 Sha256(LeafHash(input_data[3]), LeafHash(input_data[3])))


\* C22: lock discipline. Every thread that touches the store, the relay
\* worker and each network worker in its NewBlockHashes, GetBlocks and
\* Blocks arm, has released the store lock before it performs the following
\* peer.write or server.broadcast: no thread is at its write or broadcast
\* while it holds the lock. (The relay takes and drops the lock within
\* RelayInsert, so the holder of the lock is never the relay.)
LockDiscipline ==
    \A w \in Workers : worker_pc[w] = "send" => lock # w


\* C23: linearizable inserts. For every interleaving of the relay worker
\* and the network workers, the tip, the best length, the block map and the
\* length map are those of the same insert calls applied one at a time, in
\* the order in which the calls returned (each thread logs its own calls in
\* its own order); the threads between lock and release exclude one
\* another; and a network worker's presence check and insert are atomic: the
\* block it is about to insert is still absent.
LogBlocks(log) == [i \in 1..Len(log) |-> log[i].block]
Guarded(t) ==
    pool_pc[t] \in (IF t = Relay THEN {"insert", "write", "tip"}
                    ELSE {"check", "insert", "write", "tip", "send"})
LinearizableInserts ==
    /\ (\A t \in Threads : pool_pc[t] # "tip") =>
          blockchain = InsertAll(New, LogBlocks(insert_log))
    /\ \A t \in Threads : Guarded(t) => lock = t
    /\ \A w \in PoolWorkers :
          pool_pc[w] \in {"insert", "write"} =>
             Hash(Head(pool_blocks_vec[w])) \notin DOMAIN blockchain.hash_to_block
\* Two different threads have inserted a block and its child, and every
\* thread is back at its channel.
LinearizableInsertsWitness ==
    /\ Len(insert_log) = 2
    /\ insert_log[1].thread # insert_log[2].thread
    /\ get_parent(insert_log[2].block) = Hash(insert_log[1].block)
    /\ \A t \in Threads : pool_pc[t] = "recv"
    /\ blockchain.max_len = 3


\* The miner sends a block on its outbound channel.
Emitted == Len(BlocksOf(miner_log')) > Len(BlocksOf(miner_log))

\* C24: emission only while Running. The miner sends a block only in an
\* iteration in which its operating state is Running; while Paused it sends
\* nothing, waits while its control queue is empty and takes one signal per
\* loop; the step that takes Exit sends nothing, and after it the miner
\* sends no further block and takes no further signal.
EmissionOnlyWhileRunning ==
    [][/\ Emitted =>
            /\ miner_pc = "loop"
            /\ operating_state.kind = "Run"
            /\ operating_state'.kind = "Run"
            /\ Len(finished_block_chan') >= 1
            /\ finished_block_chan'[Len(finished_block_chan')] = candidate_block'
       /\ operating_state = Paused =>
            /\ ~Emitted
            /\ Len(control_chan') >= Len(control_chan) - 1
            /\ (miner_pc = "loop" /\ control_chan = <<>>) => UNCHANGED minerVars
       /\ (SignalTaken /\ Head(control_chan) = Exit) =>
            /\ ~Emitted
            /\ operating_state' = ShutDown
       /\ (operating_state = ShutDown \/ miner_pc = "exit") =>
            /\ ~Emitted
            /\ ~SignalTaken
            /\ UNCHANGED <<operating_state, miner_parent, candidate_block>>]_vars

\* The miner has sent a block while Running, then took Exit and left its
\* loop.
EmissionOnlyWhileRunningWitness ==
    /\ miner_pc = "exit"
    /\ operating_state = ShutDown
    /\ Len(BlocksOf(miner_log)) >= 1


\* An Exit signal is on the control queue.
ExitSent == \E i \in 1..Len(control_chan) : control_chan[i] = Exit

\* C25: shutdown liveness. Under fair scheduling of the miner thread (and
\* of a network worker that holds the lock the miner waits for), once an
\* Exit signal has been sent on the control queue the miner eventually is in
\* ShutDown and out of its loop, whether it was Paused or Running, with or
\* without an interval, and whatever signals were queued before the Exit;
\* the signals are taken one at a time from the head of the queue, so the
\* earlier ones come first.
ShutdownLiveness ==
    /\ ExitSent ~> (miner_pc = "exit" /\ operating_state = ShutDown)
    /\ [][SignalTaken =>
            /\ control_chan' = Tail(control_chan)
            /\ operating_state' = AfterSignal(operating_state, Head(control_chan))]_vars

\* The miner has taken two signals, an Exit among them, and left its loop
\* without an attempt; a network worker has made its broadcast and released
\* the lock.
ShutdownLivenessWitness ==
    /\ miner_pc = "exit"
    /\ operating_state = ShutDown
    /\ control_chan = <<>>
    /\ ninputs = 2
    /\ candidate_block = NoBlock
    /\ lock = 0
    /\ server_out # <<>>

\* Network worker w panics in this step.
Panics(w) == pool_pc[w] # "panicked" /\ pool_pc'[w] = "panicked"

\* C26: malformed payload isolation. When a network worker takes a payload
\* that does not decode, only that worker terminates: it fails before it
\* takes the store's lock, so the store is unchanged and the lock is neither
\* held by it nor poisoned, every other thread is where it was, and the
\* remaining workers keep taking the later messages: the inbound queue is
\* emptied again and again as long as a worker is left.
MalformedIsolation ==
    /\ [](lock # Poisoned)
    /\ [](\A w \in PoolWorkers : pool_pc[w] = "panicked" =>
             /\ lock # w
             /\ pool_msg[w] = Malformed)
    /\ [][\A w \in PoolWorkers : Panics(w) =>
             /\ Head(msg_chan) = Malformed
             /\ msg_chan' = Tail(msg_chan)
             /\ blockchain' = blockchain
             /\ lock' = lock
             /\ \A t \in Threads \ {w} : pool_pc'[t] = pool_pc[t]]_vars
    /\ []<>(msg_chan = <<>> \/ \A w \in PoolWorkers : pool_pc[w] = "panicked")

\* One worker has panicked on a malformed payload, and another one has
\* inserted a block of a Blocks message; no message is left.
MalformedIsolationWitness ==
    /\ msg_chan = <<>>
    /\ \E w1, w2 \in PoolWorkers :
          /\ pool_pc[w1] = "panicked"
          /\ pool_pc[w2] = "recv"
          /\ \E i \in 1..Len(insert_log) : insert_log[i].thread = w2
    /\ lock = 0


\* The relay takes a block from the channel and inserts it.
RelayInserts == relay_pc = "recv" /\ relay_pc' = "broadcast"

\* The hashes of the first n blocks of the miner's channel.
ChannelHashes(n) == {Hash(finished_block_chan[i]) : i \in 1..n}

\* C27: the relay never inserts an orphan. In every interleaving of miner,
\* relay and network workers, with any Start and Update signals, the parent
\* of the mined block the relay inserts is in the store at that moment: the
\* parent the miner holds in its loop is in the store or is a block still on
\* the channel, and the parent of every block on the channel is in the store
\* or ahead of it on the channel.
NoOrphanFromRelay ==
    /\ [][RelayInserts =>
            /\ relay_block' = Head(finished_block_chan)
            /\ get_parent(relay_block') \in DOMAIN blockchain.hash_to_block
            /\ blockchain'.hash_to_len[Hash(relay_block')]
                 = blockchain.hash_to_len[get_parent(relay_block')] + 1]_vars
    /\ [](miner_pc = "loop" =>
            miner_parent \in DOMAIN blockchain.hash_to_block
                               \cup ChannelHashes(Len(finished_block_chan)))
    /\ [](\A i \in 1..Len(finished_block_chan) :
            get_parent(finished_block_chan[i])
               \in DOMAIN blockchain.hash_to_block \cup ChannelHashes(i - 1))

\* The relay has inserted a block the miner built on its own previous
\* block, after a block of a peer moved the tip.
NoOrphanFromRelayWitness ==
    /\ relay_pc = "broadcast"
    /\ Len(BlocksOf(miner_log)) >= 2
    /\ relay_block = BlocksOf(miner_log)[2]
    /\ get_parent(relay_block) = Hash(BlocksOf(miner_log)[1])
    /\ blockchain.hash_to_len[Hash(relay_block)] = 4


\* All the hashes the network workers broadcast, in order.
RECURSIVE Flat(_)
Flat(lists) == IF lists = <<>> THEN <<>> ELSE Head(lists) \o Flat(Tail(lists))

Times(seq, x) == Cardinality({i \in 1..Len(seq) : seq[i] = x})

\* The blocks the network workers inserted, in order.
WorkerInserts ==
    SelectSeq(insert_log, LAMBDA entry : entry.thread \in PoolWorkers)

\* No thread is at work and no message waits for a worker that is left.
Quiescent ==
    /\ \A t \in Threads : pool_pc[t] \in {"recv", "panicked"}
    /\ finished_block_chan = <<>>
    /\ msg_chan = <<>> \/ \A w \in PoolWorkers : pool_pc[w] = "panicked"

\* C28: announce at most once. For any interleaving of the network workers,
\* however many Blocks messages carry a block, from any peers, with
\* duplicates inside one message or across messages, the workers insert it
\* once and put its hash in at most one NewBlockHashes broadcast; what they
\* have broadcast once they are through is what they inserted; and after the
\* finitely many blocks sent the node comes to rest with no message waiting.
AnnounceOnce ==
    /\ [](\A block \in PoolBlocks :
            /\ Times(LogBlocks(WorkerInserts), block) <= 1
            /\ Times(Flat(announce_log), Hash(block)) <= 1)
    /\ []((\A w \in PoolWorkers : pool_pc[w] \in {"recv", "panicked", "lock"}) =>
            Flat(announce_log) = HashesOf(LogBlocks(WorkerInserts)))
    /\ [](\A i \in 1..Len(announce_log) : announce_log[i] # <<>>)
    /\ <>[]Quiescent

\* One block came twice, in one Blocks message or in two, and nothing else:
\* the workers have inserted it once and announced it once, and are at rest.
AnnounceOnceWitness ==
    /\ Quiescent
    /\ ninputs = 2
    /\ \A w \in PoolWorkers : pool_pc[w] = "recv"
    /\ Len(insert_log) = 1
    /\ insert_log[1].thread \in PoolWorkers
    /\ announce_log = <<(<<Hash(insert_log[1].block)>>)>>
    /\ server_out = <<NewBlockHashes(<<Hash(insert_log[1].block)>>)>>


\* In the network of nodes, where every node announces what it inserted,
\* the announcements die out: from some moment on no message is in flight.
GossipQuiescence == <>[](\A n \in Nodes : net_inbox[n] = <<>>)

====
